---- MODULE Spec2Model ----
(***************************************************************************)
(* The session state of the PDF question-answering server and its two      *)
(* request handlers, POST /upload and POST /ask, in both variants of the   *)
(* repository: the multi-document server (src/index.js) and the            *)
(* single-document server (src/unnamed/part_000).                          *)
(*                                                                         *)
(* Handlers are async functions on one event loop: the code between two    *)
(* awaits runs without interruption, and any other handler may run at an   *)
(* await.  Every action below is one such uninterrupted run.               *)
(***************************************************************************)
EXTENDS Integers, Sequences, FiniteSets, TLC

\* ------------------------------------------------------------------ bounds
\* requests in one run, file parts in one run (over all uploads), and handlers
\* that are between their first await and their return at the same time
MaxReq == 3
MaxParts == 2
MaxInFlight == 2

\* ------------------------------------------------------------ input values
Variants == {"multi", "single"}
\* the documents of the run: the name of the part and the text in its bytes
Documents == {[name |-> "a.pdf", text |-> ""], [name |-> "a.pdf", text |-> "T1"],
              [name |-> "b.pdf", text |-> "T1"]}
Names == {d.name : d \in Documents}
Texts == {d.text : d \in Documents}
TextsOf(name) == {d.text : d \in {x \in Documents : x.name = name}}
Questions == {"", " ", "q1"}
Answers == {"a1"}
Errors == {"e1"}
Reqs == 1..MaxReq

VARIABLES
    variant,              \* which server file is running
    pdfContexts,          \* index.js:24, own properties in insertion order
    pdfContext,           \* part_000:17
    systemPrompt,         \* index.js:25, part_000:18
    conversationHistory,  \* index.js:26, part_000:19: the turns of the array
    historyId,            \* identity of the array object bound to conversationHistory
    req,                  \* the requests: position in the handler and locals
    parts,                \* file parts the uploads have read so far
    input,                \* what this step received from outside, and the request it is for
    reply                 \* the response this step sent, and the request it answers

vars == <<variant, pdfContexts, pdfContext, systemPrompt, conversationHistory,
          historyId, req, parts, input, reply>>

\* ----------------------------------------------------------- string helpers
RECURSIVE Join(_, _)
Join(strs, sep) ==
    IF strs = <<>> THEN ""
    ELSE IF Len(strs) = 1 THEN strs[1]
    ELSE strs[1] \o sep \o Join(Tail(strs), sep)

PreambleMulti == "You are an assistant that answers questions based on the following PDF contents: "
PreambleSingle == "You are an assistant that answers questions based on the following PDF content: "
UploadOkPrefix == "PDFs uploaded and processed successfully: "
UploadOkSingle == "PDF uploaded and processed successfully."
UploadErrPrefix == "Error processing PDF: "
NoQuestionMsg == "No question provided."
UploadFirstMulti == "Please upload at least one PDF first."
UploadFirstSingle == "Please upload a PDF first."
ProviderErrPrefix == "Failed to get response from Claude API: "

\* --------------------------------------------------------- the object store
\* pdfContexts is a JS object with string keys: assignment to an existing key
\* keeps the key's position, assignment to a new key appends it.
Keys(obj) == [i \in 1..Len(obj) |-> obj[i].name]
Values(obj) == [i \in 1..Len(obj) |-> obj[i].text]
HasKey(obj, k) == \E i \in 1..Len(obj) : obj[i].name = k
Get(obj, k) == obj[CHOOSE i \in 1..Len(obj) : obj[i].name = k].text

\* Put that adds an entry on every assignment
PutBroken(obj, k, v) == Append(obj, [name |-> k, text |-> v])
Put(obj, k, v) ==
    IF HasKey(obj, k)
    THEN [i \in 1..Len(obj) |-> IF obj[i].name = k THEN [name |-> k, text |-> v] ELSE obj[i]]
    ELSE Append(obj, [name |-> k, text |-> v])

\* DerivePromptMulti that reads only the entry stored last
DerivePromptLatest(obj) ==
    PreambleMulti \o (IF obj = <<>> THEN "" ELSE obj[Len(obj)].text)
\* index.js:64
DerivePromptMulti(obj) == PreambleMulti \o Join(Values(obj), " ")
\* part_000:49
DerivePromptSingle(text) == PreambleSingle \o text

\* ----------------------------------------------------------------- records
Turn(role, content, r) == [role |-> role, content |-> content, by |-> r]

NoResponse == [success |-> FALSE, field |-> "none", text |-> ""]
\* the handler's promise rejected: the framework answers, not the handler
Fault == [success |-> FALSE, field |-> "fault", text |-> ""]
OkMessage(m) == [success |-> TRUE, field |-> "message", text |-> m]
OkAnswer(a) == [success |-> TRUE, field |-> "answer", text |-> a]
FailMessage(m) == [success |-> FALSE, field |-> "message", text |-> m]

NoReply == [to |-> 0, body |-> NoResponse]
Reply(r, body) == [to |-> r, body |-> body]

\* What a step receives: a request ("ask" with its question, ok = FALSE when it
\* has no body; "upload"), a file part with its name ("part"), the failure to
\* read the bytes of a part ("bytes"), the extractor's text ("text"), the
\* provider's answer ("answer"), the end of the parts ("end").  ok = FALSE: the
\* awaited promise rejected, and value is the error message where the code
\* reads it.
NoInput == [on |-> 0, kind |-> "none", value |-> "", ok |-> TRUE]
Input(r, kind, value, ok) == [on |-> r, kind |-> kind, value |-> value, ok |-> ok]

\* A request: its handler's position and locals.  messages, system and arr are
\* the arguments of the provider call in flight (arr: the array object that was
\* passed).  When the handler returns its locals are gone; what stays on record
\* is arr and how the provider call ended ("answered", "failed", or "none" when
\* there was no call).
IdleReq == [kind |-> "none", pc |-> "idle", question |-> "", messages |-> <<>>,
            system |-> "", arr |-> 0, file |-> "", uploadedFiles |-> <<>>,
            result |-> "none"]

Arrived(kind) == [IdleReq EXCEPT !.kind = kind]
Done(r, kind, result) == [IdleReq EXCEPT !.kind = kind, !.pc = "done",
                                         !.arr = req[r].arr, !.result = result]

\* requests arrive in the order of their numbers
InFlight == Cardinality({x \in Reqs : req[x].pc \notin {"idle", "done"}})
CanArrive(r) ==
    /\ req[r].pc = "idle"
    /\ IF r = 1 THEN TRUE ELSE req[r - 1].pc # "idle"
    /\ InFlight < MaxInFlight

Init ==
    /\ variant \in Variants
    /\ pdfContexts = <<>>
    /\ pdfContext = ""
    /\ systemPrompt = ""
    /\ conversationHistory = <<>>
    /\ historyId = 0
    /\ req = [r \in Reqs |-> IdleReq]
    /\ parts = 0
    /\ input = NoInput
    /\ reply = NoReply

\* ------------------------------------------------------------ POST /ask
\* !question: undefined, null, "" and 0 are falsy; a blank string is not.
Falsy(q) == q = ""

\* StoreEmpty that takes an empty prompt for an empty store
StoreEmptyByPrompt == systemPrompt = ""
\* index.js:75, part_000:62
StoreEmpty ==
    IF variant = "multi" THEN Len(Keys(pdfContexts)) = 0 ELSE pdfContext = ""

UploadFirstMsg == IF variant = "multi" THEN UploadFirstMulti ELSE UploadFirstSingle

\* AskStart with the two checks in the other order
AskStartStoreFirst(r, hasBody, q) ==
    /\ input' = Input(r, "ask", IF hasBody THEN q ELSE "", hasBody)
    /\ CanArrive(r)
    /\ UNCHANGED <<variant, pdfContexts, pdfContext, systemPrompt, historyId, parts>>
    /\ IF ~hasBody
       THEN /\ req' = [req EXCEPT ![r] = Done(r, "ask", "none")]
            /\ reply' = Reply(r, Fault)
            /\ UNCHANGED conversationHistory
       ELSE IF StoreEmpty
       THEN /\ req' = [req EXCEPT ![r] = Done(r, "ask", "none")]
            /\ reply' = Reply(r, FailMessage(UploadFirstMsg))
            /\ UNCHANGED conversationHistory
       ELSE IF Falsy(q)
       THEN /\ req' = [req EXCEPT ![r] = Done(r, "ask", "none")]
            /\ reply' = Reply(r, FailMessage(NoQuestionMsg))
            /\ UNCHANGED conversationHistory
       ELSE /\ conversationHistory' = Append(conversationHistory, Turn("user", q, r))
            /\ req' = [req EXCEPT ![r] = [Arrived("ask") EXCEPT !.pc = "provider",
                                    !.question = q,
                                    !.messages = conversationHistory',
                                    !.system = systemPrompt,
                                    !.arr = historyId]]
            /\ reply' = NoReply

\* AskStart that hands only the new question to the provider
AskStartQuestionOnly(r, hasBody, q) ==
    /\ input' = Input(r, "ask", IF hasBody THEN q ELSE "", hasBody)
    /\ CanArrive(r)
    /\ UNCHANGED <<variant, pdfContexts, pdfContext, systemPrompt, historyId, parts>>
    /\ IF ~hasBody
       THEN /\ req' = [req EXCEPT ![r] = Done(r, "ask", "none")]
            /\ reply' = Reply(r, Fault)
            /\ UNCHANGED conversationHistory
       ELSE IF Falsy(q)
       THEN /\ req' = [req EXCEPT ![r] = Done(r, "ask", "none")]
            /\ reply' = Reply(r, FailMessage(NoQuestionMsg))
            /\ UNCHANGED conversationHistory
       ELSE IF StoreEmpty
       THEN /\ req' = [req EXCEPT ![r] = Done(r, "ask", "none")]
            /\ reply' = Reply(r, FailMessage(UploadFirstMsg))
            /\ UNCHANGED conversationHistory
       ELSE /\ conversationHistory' = Append(conversationHistory, Turn("user", q, r))
            /\ req' = [req EXCEPT ![r] = [Arrived("ask") EXCEPT !.pc = "provider",
                                    !.question = q,
                                    !.messages = <<Turn("user", q, r)>>,
                                    !.system = systemPrompt,
                                    !.arr = historyId]]
            /\ reply' = NoReply

\* index.js:70-81, part_000:57-68.  The handler up to its first await: the
\* destructuring of the body, the two checks, the push of the user turn and the
\* call of the provider, which serialises the array as it is now.
\* hasBody = FALSE: request.body is undefined or null, the destructuring throws.
AskStart(r, hasBody, q) ==
    /\ input' = Input(r, "ask", IF hasBody THEN q ELSE "", hasBody)
    /\ CanArrive(r)
    /\ UNCHANGED <<variant, pdfContexts, pdfContext, systemPrompt, historyId, parts>>
    /\ IF ~hasBody
       THEN /\ req' = [req EXCEPT ![r] = Done(r, "ask", "none")]
            /\ reply' = Reply(r, Fault)
            /\ UNCHANGED conversationHistory
       ELSE IF Falsy(q)
       THEN /\ req' = [req EXCEPT ![r] = Done(r, "ask", "none")]
            /\ reply' = Reply(r, FailMessage(NoQuestionMsg))
            /\ UNCHANGED conversationHistory
       ELSE IF StoreEmpty
       THEN /\ req' = [req EXCEPT ![r] = Done(r, "ask", "none")]
            /\ reply' = Reply(r, FailMessage(UploadFirstMsg))
            /\ UNCHANGED conversationHistory
       ELSE /\ conversationHistory' = Append(conversationHistory, Turn("user", q, r))
            /\ req' = [req EXCEPT ![r] = [Arrived("ask") EXCEPT !.pc = "provider",
                                    !.question = q,
                                    !.messages = conversationHistory',
                                    !.system = systemPrompt,
                                    !.arr = historyId]]
            /\ reply' = NoReply

\* AskProviderOk that puts the answer at the front of the transcript
AskProviderOkPrepend(r, answer) ==
    /\ input' = Input(r, "answer", answer, TRUE)
    /\ req[r].kind = "ask" /\ req[r].pc = "provider"
    /\ conversationHistory' = <<Turn("assistant", answer, r)>> \o conversationHistory
    /\ req' = [req EXCEPT ![r] = Done(r, "ask", "answered")]
    /\ reply' = Reply(r, OkAnswer(answer))
    /\ UNCHANGED <<variant, pdfContexts, pdfContext, systemPrompt, historyId, parts>>

\* AskProviderOk that derives the prompt again from the store
AskProviderOkRefreshPrompt(r, answer) ==
    /\ input' = Input(r, "answer", answer, TRUE)
    /\ req[r].kind = "ask" /\ req[r].pc = "provider"
    /\ conversationHistory' = Append(conversationHistory, Turn("assistant", answer, r))
    /\ systemPrompt' = IF variant = "multi" THEN DerivePromptMulti(pdfContexts)
                                            ELSE DerivePromptSingle(pdfContext)
    /\ req' = [req EXCEPT ![r] = Done(r, "ask", "answered")]
    /\ reply' = Reply(r, OkAnswer(answer))
    /\ UNCHANGED <<variant, pdfContexts, pdfContext, historyId, parts>>

\* index.js:82-83, part_000:69-70.  The provider answered: the assistant turn
\* goes to the array the global names now.
AskProviderOk(r, answer) ==
    /\ input' = Input(r, "answer", answer, TRUE)
    /\ req[r].kind = "ask" /\ req[r].pc = "provider"
    /\ conversationHistory' = Append(conversationHistory, Turn("assistant", answer, r))
    /\ req' = [req EXCEPT ![r] = Done(r, "ask", "answered")]
    /\ reply' = Reply(r, OkAnswer(answer))
    /\ UNCHANGED <<variant, pdfContexts, pdfContext, systemPrompt, historyId, parts>>

\* AskProviderFail with a catch that takes the unanswered question back
AskProviderFailRollback(r, err) ==
    /\ input' = Input(r, "answer", err, FALSE)
    /\ req[r].kind = "ask" /\ req[r].pc = "provider"
    /\ conversationHistory' = SelectSeq(conversationHistory, LAMBDA t : t.by # r)
    /\ req' = [req EXCEPT ![r] = Done(r, "ask", "failed")]
    /\ reply' = Reply(r, FailMessage(ProviderErrPrefix \o err))
    /\ UNCHANGED <<variant, pdfContexts, pdfContext, systemPrompt, historyId, parts>>

\* AskProviderFail that calls the provider again
AskProviderFailRetry(r, err) ==
    /\ input' = Input(r, "answer", err, FALSE)
    /\ req[r].kind = "ask" /\ req[r].pc = "provider"
    /\ req' = [req EXCEPT ![r].messages = conversationHistory, ![r].system = systemPrompt]
    /\ reply' = NoReply
    /\ UNCHANGED <<variant, pdfContexts, pdfContext, systemPrompt, conversationHistory,
                   historyId, parts>>

\* index.js:43-46,84-86, part_000:36-39,71-73.  callClaudeAPI threw: the catch
\* of the handler answers with the message.
AskProviderFail(r, err) ==
    /\ input' = Input(r, "answer", err, FALSE)
    /\ req[r].kind = "ask" /\ req[r].pc = "provider"
    /\ req' = [req EXCEPT ![r] = Done(r, "ask", "failed")]
    /\ reply' = Reply(r, FailMessage(ProviderErrPrefix \o err))
    /\ UNCHANGED <<variant, pdfContexts, pdfContext, systemPrompt, conversationHistory,
                   historyId, parts>>

\* ------------------------------------------------------ POST /upload (multi)
\* index.js:50-51: the handler starts and waits for request.files()
UploadStart(r) ==
    /\ input' = Input(r, "upload", "", TRUE)
    /\ variant = "multi"
    /\ CanArrive(r)
    /\ req' = [req EXCEPT ![r] = [Arrived("upload") EXCEPT !.pc = "iter"]]
    /\ reply' = NoReply
    /\ UNCHANGED <<variant, pdfContexts, pdfContext, systemPrompt, conversationHistory,
                   historyId, parts>>

\* index.js:53-56: the iterator delivers the next file part; the handler asks
\* for its bytes and then for their text.  Between these two awaits it touches
\* nothing, so the position "parse" stands for both.
UploadNextFile(r, name) ==
    /\ input' = Input(r, "part", name, TRUE)
    /\ variant = "multi"
    /\ req[r].kind = "upload" /\ req[r].pc = "iter"
    /\ parts < MaxParts
    /\ parts' = parts + 1
    /\ req' = [req EXCEPT ![r].pc = "parse", ![r].file = name]
    /\ reply' = NoReply
    /\ UNCHANGED <<variant, pdfContexts, pdfContext, systemPrompt, conversationHistory,
                   historyId>>

\* index.js:53: the iterator rejects (the body is not multipart, the stream
\* breaks); nothing in the handler catches it
UploadIterFault(r) ==
    /\ input' = Input(r, "part", "", FALSE)
    /\ variant = "multi"
    /\ req[r].kind = "upload" /\ req[r].pc = "iter"
    /\ req' = [req EXCEPT ![r] = Done(r, "upload", "none")]
    /\ reply' = Reply(r, Fault)
    /\ UNCHANGED <<variant, pdfContexts, pdfContext, systemPrompt, conversationHistory,
                   historyId, parts>>

\* index.js:54, part_000:44: file.toBuffer() rejects, outside every try
UploadToBufferFault(r) ==
    /\ input' = Input(r, "bytes", "", FALSE)
    /\ req[r].kind = "upload" /\ req[r].pc = "parse"
    /\ req' = [req EXCEPT ![r] = Done(r, "upload", "none")]
    /\ reply' = Reply(r, Fault)
    /\ UNCHANGED <<variant, pdfContexts, pdfContext, systemPrompt, conversationHistory,
                   historyId, parts>>

\* index.js:56-58: the extractor returned text
UploadParseOk(r, text) ==
    /\ input' = Input(r, "text", text, TRUE)
    /\ variant = "multi"
    /\ req[r].kind = "upload" /\ req[r].pc = "parse"
    /\ pdfContexts' = Put(pdfContexts, req[r].file, text)
    /\ req' = [req EXCEPT ![r].pc = "iter",
                          ![r].file = "",
                          ![r].uploadedFiles = Append(@, req[r].file)]
    /\ reply' = NoReply
    /\ UNCHANGED <<variant, pdfContext, systemPrompt, conversationHistory, historyId, parts>>

\* UploadParseFail that gives up the batch and answers with the failure
UploadParseFailAbort(r) ==
    /\ input' = Input(r, "text", "", FALSE)
    /\ variant = "multi"
    /\ req[r].kind = "upload" /\ req[r].pc = "parse"
    /\ req' = [req EXCEPT ![r] = Done(r, "upload", "none")]
    /\ reply' = Reply(r, FailMessage(UploadErrPrefix))
    /\ UNCHANGED <<variant, pdfContexts, pdfContext, systemPrompt, conversationHistory,
                   historyId, parts>>

\* index.js:59-61: the extractor threw; the error is logged and the loop goes on
UploadParseFail(r) ==
    /\ input' = Input(r, "text", "", FALSE)
    /\ variant = "multi"
    /\ req[r].kind = "upload" /\ req[r].pc = "parse"
    /\ req' = [req EXCEPT ![r].pc = "iter", ![r].file = ""]
    /\ reply' = NoReply
    /\ UNCHANGED <<variant, pdfContexts, pdfContext, systemPrompt, conversationHistory,
                   historyId, parts>>

\* UploadFinish that resets the transcript only when the batch stored something
UploadFinishKeepHistory(r) ==
    /\ input' = Input(r, "end", "", TRUE)
    /\ variant = "multi"
    /\ req[r].kind = "upload" /\ req[r].pc = "iter"
    /\ systemPrompt' = DerivePromptMulti(pdfContexts)
    /\ conversationHistory' = IF req[r].uploadedFiles = <<>> THEN conversationHistory ELSE <<>>
    /\ historyId' = IF req[r].uploadedFiles = <<>> THEN historyId ELSE historyId + 1
    /\ req' = [req EXCEPT ![r] = Done(r, "upload", "none")]
    /\ reply' = Reply(r, OkMessage(UploadOkPrefix \o Join(req[r].uploadedFiles, ", ")))
    /\ UNCHANGED <<variant, pdfContexts, pdfContext, parts>>

\* index.js:53,64-67: the iterator is exhausted; prompt, reset and response
UploadFinish(r) ==
    /\ input' = Input(r, "end", "", TRUE)
    /\ variant = "multi"
    /\ req[r].kind = "upload" /\ req[r].pc = "iter"
    /\ systemPrompt' = DerivePromptMulti(pdfContexts)
    /\ conversationHistory' = <<>>
    /\ historyId' = historyId + 1
    /\ req' = [req EXCEPT ![r] = Done(r, "upload", "none")]
    /\ reply' = Reply(r, OkMessage(UploadOkPrefix \o Join(req[r].uploadedFiles, ", ")))
    /\ UNCHANGED <<variant, pdfContexts, pdfContext, parts>>

\* ----------------------------------------------------- POST /upload (single)
\* part_000:43: the handler starts and waits for request.file()
UploadSingleStart(r) ==
    /\ input' = Input(r, "upload", "", TRUE)
    /\ variant = "single"
    /\ CanArrive(r)
    /\ req' = [req EXCEPT ![r] = [Arrived("upload") EXCEPT !.pc = "file"]]
    /\ reply' = NoReply
    /\ UNCHANGED <<variant, pdfContexts, pdfContext, systemPrompt, conversationHistory,
                   historyId, parts>>

\* part_000:43-47: request.file() resolves with the file part; the handler asks
\* for its bytes and then for their text
UploadSingleFile(r) ==
    /\ input' = Input(r, "part", "slot", TRUE)
    /\ variant = "single"
    /\ req[r].kind = "upload" /\ req[r].pc = "file"
    /\ parts < MaxParts
    /\ parts' = parts + 1
    /\ req' = [req EXCEPT ![r].pc = "parse", ![r].file = "slot"]
    /\ reply' = NoReply
    /\ UNCHANGED <<variant, pdfContexts, pdfContext, systemPrompt, conversationHistory,
                   historyId>>

\* part_000:43-44: request.file() rejects (the body is not multipart), or it
\* resolves with undefined (no file part) and data.toBuffer is a TypeError;
\* both are outside the try
UploadSingleFileFault(r) ==
    /\ input' = Input(r, "part", "", FALSE)
    /\ variant = "single"
    /\ req[r].kind = "upload" /\ req[r].pc = "file"
    /\ req' = [req EXCEPT ![r] = Done(r, "upload", "none")]
    /\ reply' = Reply(r, Fault)
    /\ UNCHANGED <<variant, pdfContexts, pdfContext, systemPrompt, conversationHistory,
                   historyId, parts>>

\* part_000:47-51: the extractor returned text
UploadSingleParseOk(r, text) ==
    /\ input' = Input(r, "text", text, TRUE)
    /\ variant = "single"
    /\ req[r].kind = "upload" /\ req[r].pc = "parse"
    /\ pdfContext' = text
    /\ systemPrompt' = DerivePromptSingle(pdfContext')
    /\ conversationHistory' = <<>>
    /\ historyId' = historyId + 1
    /\ req' = [req EXCEPT ![r] = Done(r, "upload", "none")]
    /\ reply' = Reply(r, OkMessage(UploadOkSingle))
    /\ UNCHANGED <<variant, pdfContexts, parts>>

\* UploadSingleParseFail that empties the slot of the document that failed
UploadSingleParseFailClears(r, err) ==
    /\ input' = Input(r, "text", err, FALSE)
    /\ variant = "single"
    /\ req[r].kind = "upload" /\ req[r].pc = "parse"
    /\ pdfContext' = ""
    /\ req' = [req EXCEPT ![r] = Done(r, "upload", "none")]
    /\ reply' = Reply(r, FailMessage(UploadErrPrefix \o err))
    /\ UNCHANGED <<variant, pdfContexts, systemPrompt, conversationHistory,
                   historyId, parts>>

\* part_000:52-54: the extractor threw
UploadSingleParseFail(r, err) ==
    /\ input' = Input(r, "text", err, FALSE)
    /\ variant = "single"
    /\ req[r].kind = "upload" /\ req[r].pc = "parse"
    /\ req' = [req EXCEPT ![r] = Done(r, "upload", "none")]
    /\ reply' = Reply(r, FailMessage(UploadErrPrefix \o err))
    /\ UNCHANGED <<variant, pdfContexts, pdfContext, systemPrompt, conversationHistory,
                   historyId, parts>>

Next ==
    \/ \E r \in Reqs, hasBody \in BOOLEAN, q \in Questions : AskStart(r, hasBody, q)
    \/ \E r \in Reqs, a \in Answers : AskProviderOk(r, a)
    \/ \E r \in Reqs, e \in Errors : AskProviderFail(r, e)
    \/ \E r \in Reqs : UploadStart(r)
    \/ \E r \in Reqs, n \in Names : UploadNextFile(r, n)
    \/ \E r \in Reqs : UploadIterFault(r)
    \/ \E r \in Reqs : UploadToBufferFault(r)
    \/ \E r \in Reqs : \E t \in TextsOf(req[r].file) : UploadParseOk(r, t)
    \/ \E r \in Reqs : UploadParseFail(r)
    \/ \E r \in Reqs : UploadFinish(r)
    \/ \E r \in Reqs : UploadSingleStart(r)
    \/ \E r \in Reqs : UploadSingleFile(r)
    \/ \E r \in Reqs : UploadSingleFileFault(r)
    \/ \E r \in Reqs, t \in Texts : UploadSingleParseOk(r, t)
    \/ \E r \in Reqs, e \in Errors : UploadSingleParseFail(r, e)

Spec == Init /\ [][Next]_vars

\* ======================================================================
\* The claims
\* ======================================================================
\* Steps of the handlers, read off a pair of states.
AskPushes(r) == req[r].pc = "idle" /\ req'[r].pc = "provider"
AskAnswers(r) == req[r].pc = "provider" /\ req'[r].result = "answered"
AskFails(r) == req[r].pc = "provider" /\ req'[r].result = "failed"

Last(seq) == seq[Len(seq)]
UserTurn(r, q) == [role |-> "user", content |-> q, by |-> r]
\* positions of the user turn that ask a pushed
UserTurnAt(seq, a) == {i \in 1..Len(seq) : seq[i].role = "user" /\ seq[i].by = a}
ProviderFailures == {FailMessage(ProviderErrPrefix \o e) : e \in Errors}

\* ---------------------------------------------------------------- C1
\* The ask pushes its question as one user turn at the end of the transcript.
C1_PushStep(r) ==
    AskPushes(r) =>
        /\ ~Falsy(req'[r].question)
        /\ conversationHistory' = Append(conversationHistory, UserTurn(r, req'[r].question))
\* The failing ask leaves the transcript as it is and answers with the error.
C1_FailStep(r) ==
    AskFails(r) =>
        /\ conversationHistory' = conversationHistory
        /\ reply'.to = r /\ reply'.body \in ProviderFailures
\* The messages of ask r hold the orphan of the failed ask a before r's own turn.
OrphanSent(r, a) ==
    /\ Last(req[r].messages) = UserTurn(r, req[r].question)
    /\ \E i \in UserTurnAt(req[r].messages, a) : i < Len(req[r].messages)
\* a failed, and r is the next ask after it that can still succeed
NextAfterFailed(r, a) ==
    /\ a < r
    /\ req[a].result = "failed"
    /\ req[r].pc = "provider"
    /\ \A c \in Reqs : (a < c /\ c < r) => req[c].pc = "done" /\ req[c].result # "answered"

\* C1 as stated, in its last clause: after an ask whose provider call failed,
\* the next ask that succeeds sends the orphan user turn followed by its own
\* user turn.
C1_Original ==
    \A r, a \in Reqs : NextAfterFailed(r, a) => OrphanSent(r, a)

\* C1 amended: an ask whose provider call fails has appended exactly its user
\* turn, keeps it and answers with the error message; the next ask that
\* succeeds sends the orphan turn followed by its own user turn, provided no
\* upload has replaced the transcript since the orphan was pushed.
C1_OrphanUntilReset ==
    /\ [](\A r, a \in Reqs :
            (NextAfterFailed(r, a) /\ req[a].arr = req[r].arr) => OrphanSent(r, a))
    /\ [][\A r \in Reqs : C1_PushStep(r) /\ C1_FailStep(r)]_vars

\* An ask has just succeeded on a transcript that holds the orphan of a failed
\* ask before its own two turns.
C1_Witness ==
    \E r, a \in Reqs :
        /\ a < r /\ req[a].result = "failed" /\ req[a].arr = req[r].arr
        /\ reply.to = r /\ reply.body.field = "answer"
        /\ Len(conversationHistory) >= 3
        /\ conversationHistory[Len(conversationHistory)].by = r
        /\ conversationHistory[Len(conversationHistory) - 1].by = r
        /\ \E i \in UserTurnAt(conversationHistory, a) : i < Len(conversationHistory) - 1
        /\ \A i \in 1..Len(conversationHistory) : conversationHistory[i].by = a
                                               => conversationHistory[i].role = "user"
\* ---------------------------------------------------------------- C2
\* the step in which the upload handler of r returns its response
UploadReturns(r) ==
    /\ req[r].kind = "upload" /\ req[r].pc # "done"
    /\ req'[r].pc = "done" /\ reply'.to = r /\ reply'.body.field = "message"
\* the state right after the upload handler returned a response
UploadReturned == reply.to # 0 /\ req[reply.to].kind = "upload" /\ reply.body.field = "message"
SomeAskAnswered == \E a \in Reqs : req[a].kind = "ask" /\ req[a].result = "answered"

Answered(r) == reply.to = r /\ reply.body.field = "answer"
TurnsBy(seq, r) == {i \in 1..Len(seq) : seq[i].by = r}

\* C3: when the provider call of an ask succeeds, the response is a success
\* carrying the provider's text, and the transcript ends with the two turns of
\* that ask, (user, question) and right after it (assistant, answer), the only
\* turns of that ask.
C3_Original ==
    \A r \in Reqs : Answered(r) =>
        /\ reply.body = OkAnswer(input.value)
        /\ Len(conversationHistory) >= 2
        /\ Last(conversationHistory) = Turn("assistant", input.value, r)
        /\ conversationHistory[Len(conversationHistory) - 1].role = "user"
        /\ conversationHistory[Len(conversationHistory) - 1].by = r
        /\ TurnsBy(conversationHistory, r)
              = {Len(conversationHistory) - 1, Len(conversationHistory)}

\* ---------------------------------------------------------------- C4
Alternates(seq) ==
    \A i \in 1..Len(seq) : seq[i].role = (IF i % 2 = 1 THEN "user" ELSE "assistant")
NoProviderFailure == \A r \in Reqs : req[r].result # "failed"

\* C4: as long as no provider call has failed, the transcript alternates
\* user/assistant and starts with a user turn, for sequential and overlapping
\* requests alike.
C4_Original == NoProviderFailure => Alternates(conversationHistory)

\* ---------------------------------------------------------------- C5
\* the prompt a serial execution has derived from the store as it is now
PromptOfStore ==
    IF variant = "multi"
    THEN PreambleMulti \o Join(Values(pdfContexts), " ")
    ELSE PreambleSingle \o pdfContext

\* C5: uploads and asks are atomic with respect to each other.  Nothing falls
\* between the two appends of an ask: when its answer arrives the transcript
\* is the array and the content that the ask sent.  And no ask observes a store
\* write of an upload without the rest of that upload: the prompt it sends is
\* the prompt of the store it has just checked.
C5_Original ==
    [][\A r \in Reqs :
        /\ AskAnswers(r) => /\ conversationHistory = req[r].messages
                            /\ historyId = req[r].arr
        /\ AskPushes(r) => req'[r].system = PromptOfStore]_vars

\* ---------------------------------------------------------------- C6
\* the ask that pushed turn t began on the array object numbered arr; every
\* upload that resets the transcript binds the next array object
BeganOn(t) == req[t.by].arr

\* C6: once an upload has reset the transcript, no turn of an ask that began
\* before the reset is in the transcript, and none is in the messages that a
\* later ask sends, also when the provider call of the earlier ask was in
\* flight during the upload.
C6_Original ==
    /\ \A i \in 1..Len(conversationHistory) : BeganOn(conversationHistory[i]) = historyId
    /\ \A r \in Reqs : req[r].pc = "provider" =>
            \A i \in 1..Len(req[r].messages) : BeganOn(req[r].messages[i]) = req[r].arr

\* ---------------------------------------------------------------- C7
RECURSIVE SpaceJoined(_)
SpaceJoined(texts) ==
    IF Len(texts) = 0 THEN ""
    ELSE IF Len(texts) = 1 THEN texts[1]
    ELSE SpaceJoined(SubSeq(texts, 1, Len(texts) - 1)) \o " " \o texts[Len(texts)]
\* the preamble followed by the texts of the documents extracted so far
ExpectedPrompt ==
    IF variant = "multi"
    THEN PreambleMulti \o SpaceJoined([i \in 1..Len(pdfContexts) |-> pdfContexts[i].text])
    ELSE PreambleSingle \o pdfContext
UploadFaults(r) ==
    /\ req[r].kind = "upload" /\ req[r].pc # "done"
    /\ req'[r].pc = "done" /\ reply'.body = Fault

Blank(q) == q = "" \/ q = " "
\* the step in which ask r arrives with a body
AskArrives(r) == req[r].pc = "idle" /\ input'.on = r /\ input'.kind = "ask" /\ input'.ok
SessionState == <<pdfContexts, pdfContext, systemPrompt, conversationHistory, historyId>>

\* C8: an ask whose question is empty or only whitespace is rejected with
\* "No question provided.", makes no provider call and changes nothing in the
\* store, the prompt and the transcript.
C8_Original ==
    [][\A r \in Reqs : (AskArrives(r) /\ Blank(input'.value)) =>
            /\ reply' = Reply(r, FailMessage(NoQuestionMsg))
            /\ req'[r].pc = "done"
            /\ SessionState' = SessionState]_vars

\* ---------------------------------------------------------------- C9
NoDocuments == IF variant = "multi" THEN pdfContexts = <<>> ELSE pdfContext = ""
FixedUploadFirst == {"Please upload at least one PDF first.", "Please upload a PDF first."}
NoUploadYet == \A r \in Reqs : req[r].kind # "upload"

\* C9: an ask with a non-empty question that arrives while the store is empty
\* is rejected with the fixed upload-first message, makes no provider call and
\* changes no state; before any upload the transcript is empty.
C9_EmptyStoreRejects ==
    /\ [][\A r \in Reqs : (AskArrives(r) /\ input'.value # "" /\ NoDocuments) =>
            /\ reply'.to = r /\ ~reply'.body.success
            /\ reply'.body.field = "message" /\ reply'.body.text \in FixedUploadFirst
            /\ req'[r].pc = "done" /\ req'[r].result = "none"
            /\ SessionState' = SessionState]_vars
    /\ [](NoUploadYet => conversationHistory = <<>>)

\* The ask "q1" has just been rejected: the store is empty although an upload
\* has returned before.
C9_Witness ==
    /\ input.kind = "ask" /\ input.ok /\ input.value = "q1"
    /\ NoDocuments
    /\ reply.to = input.on /\ reply.body.text \in FixedUploadFirst
    /\ \E u \in Reqs : req[u].kind = "upload" /\ req[u].pc = "done" /\ historyId > 0

\* ---------------------------------------------------------------- C10
\* the step in which the extractor settles for the part of upload r
ExtractStep(r) ==
    /\ variant = "multi" /\ req[r].kind = "upload" /\ req[r].pc = "parse"
    /\ input'.on = r /\ input'.kind = "text"
\* new is old with text stored under id: one entry per identifier, the other
\* entries as they were
StoredUnder(old, new, id, text) ==
    /\ \A i, j \in 1..Len(new) : new[i].name = new[j].name => i = j
    /\ \E i \in 1..Len(new) : new[i] = [name |-> id, text |-> text]
    /\ \A i \in 1..Len(old) : old[i].name # id => \E j \in 1..Len(new) : new[j] = old[i]
    /\ \A j \in 1..Len(new) : new[j].name # id => \E i \in 1..Len(old) : old[i] = new[j]

\* C10: in the multi-document upload every part whose extraction succeeds is
\* stored under its identifier, over any earlier text for it, and listed in the
\* result; every part whose extraction fails is neither stored nor listed and
\* leaves the store as it was; after either the loop goes on to the next part.
C10_BatchPartial ==
    [][\A r \in Reqs :
        /\ (ExtractStep(r) /\ input'.ok) =>
              /\ StoredUnder(pdfContexts, pdfContexts', req[r].file, input'.value)
              /\ req'[r].uploadedFiles = Append(req[r].uploadedFiles, req[r].file)
              /\ req'[r].pc = "iter"
        /\ (ExtractStep(r) /\ ~input'.ok) =>
              /\ pdfContexts' = pdfContexts
              /\ req'[r].uploadedFiles = req[r].uploadedFiles
              /\ req'[r].pc = "iter" /\ reply' = NoReply
        /\ (UploadReturns(r) /\ variant = "multi") =>
              reply'.body = OkMessage(UploadOkPrefix \o Join(req[r].uploadedFiles, ", "))]_vars

\* The only upload of the run read two parts and has returned: its result
\* lists b.pdf alone and the store holds b.pdf alone, so the extraction of the
\* first part failed and the second part was still processed.
C10_Witness ==
    /\ UploadReturned /\ variant = "multi" /\ parts = 2
    /\ \A x \in Reqs : x # reply.to => req[x].kind # "upload"
    /\ reply.body = OkMessage(UploadOkPrefix \o "b.pdf")
    /\ pdfContexts = <<[name |-> "b.pdf", text |-> "T1"]>>

\* ---------------------------------------------------------------- C11
\* the state right after the extractor failed for a part of a multi-document upload
ExtractionFailed == variant = "multi" /\ input.kind = "text" /\ ~input.ok

HandlerEnded == reply.to # 0
Structured(body) ==
    \/ body.success /\ body.field \in {"message", "answer"}
    \/ ~body.success /\ body.field = "message"

\* C12: every upload and every ask ends in a structured response, a success
\* or {success: false, message}; no fault leaves the handler uncaught, whether
\* it comes from decoding the upload, from a missing ask body, from the
\* extractor or from the provider.
C12_Original == HandlerEnded => Structured(reply.body)

\* ---------------------------------------------------------------- C13
\* C13: the question check comes before the store check: an ask with an empty
\* question is rejected with "No question provided." whatever the store
\* holds, the empty store included, and nothing else of the handler runs: no
\* provider call, no change of the session state.
C13_QuestionCheckFirst ==
    /\ [](\A r \in Reqs : (input.on = r /\ input.kind = "ask" /\ input.ok /\ input.value = "") =>
            /\ reply = Reply(r, FailMessage("No question provided."))
            /\ req[r].pc = "done" /\ req[r].result = "none")
    /\ [][\A r \in Reqs : (AskArrives(r) /\ input'.value = "") =>
            SessionState' = SessionState]_vars

\* An ask with an empty question has met an empty store and was answered
\* "No question provided.".
C13_Witness ==
    /\ input.kind = "ask" /\ input.ok /\ input.value = ""
    /\ NoDocuments
    /\ reply.to = input.on /\ reply.body.text = "No question provided."

\* ---------------------------------------------------------------- C14
\* the state right after ask r pushed its turn and called the provider
JustCalled(r) == input.on = r /\ input.kind = "ask" /\ req[r].pc = "provider"

\* C14: whenever an ask calls the provider, the prompt it passes is the prompt
\* derived from what the store holds at that moment; and in every state in
\* which an ask can get past its checks the prompt is the one derived from the
\* store, also while a multi-document upload has stored some of its parts and
\* waits for the rest.
C14_Original ==
    /\ \A r \in Reqs : JustCalled(r) => req[r].system = ExpectedPrompt
    /\ ~NoDocuments => systemPrompt = ExpectedPrompt

\* ---------------------------------------------------------------- C15
\* C15: the messages an ask hands to the provider are the whole transcript at
\* the moment of the call, on the array that is current then, and their last
\* element is the user turn of that ask.
C15_WholeTranscriptSent ==
    \A r \in Reqs : JustCalled(r) =>
        /\ req[r].messages = conversationHistory
        /\ req[r].arr = historyId
        /\ Len(req[r].messages) >= 1
        /\ Last(req[r].messages) = [role |-> "user", content |-> input.value, by |-> r]

\* An ask has just called the provider with the two turns of an answered ask
\* before its own turn.
C15_Witness ==
    \E r, a \in Reqs :
        /\ JustCalled(r) /\ a # r /\ req[a].result = "answered"
        /\ Len(req[r].messages) = 3
        /\ req[r].messages[1].by = a /\ req[r].messages[1].role = "user"
        /\ req[r].messages[2].by = a /\ req[r].messages[2].role = "assistant"
        /\ req[r].messages[3].by = r

\* ---------------------------------------------------------------- C16
\* an upload has extracted and stored a document: the multi-document store
\* holds an entry; the single-document handler has assigned the slot, which it
\* does together with the reset that binds a new array
SomeDocumentStored ==
    IF variant = "multi" THEN Len(pdfContexts) > 0 ELSE historyId > 0

\* C16: once an upload has stored a document, whatever its text, the empty
\* string included, no later ask with a non-empty question is rejected with
\* the upload-first message.
C16_Original ==
    \A r \in Reqs :
        (input.on = r /\ input.kind = "ask" /\ input.ok /\ input.value # ""
            /\ SomeDocumentStored)
        => ~(reply.to = r /\ reply.body.text \in FixedUploadFirst)

\* ---------------------------------------------------------------- C17
\* the request whose handler takes this step
StepOf(r) == input'.on = r
Extends(old, new) == Len(new) = Len(old) + 1 /\ SubSeq(new, 1, Len(old)) = old

\* C17: every step of an ask leaves the transcript as it is or adds one turn
\* of that ask at its end; every step of an upload leaves it as it is or makes
\* it empty, binding a new array; nothing else shortens or rewrites it.
C17_AppendOnly ==
    [][\A r \in Reqs : StepOf(r) =>
        /\ req'[r].kind = "ask" =>
              /\ historyId' = historyId
              /\ \/ conversationHistory' = conversationHistory
                 \/ /\ Extends(conversationHistory, conversationHistory')
                    /\ Last(conversationHistory').by = r
        /\ req'[r].kind = "upload" =>
              \/ conversationHistory' = conversationHistory /\ historyId' = historyId
              \/ conversationHistory' = <<>> /\ historyId' = historyId + 1]_vars

\* The second ask since the last reset has been answered: the transcript holds
\* the four turns in the order in which they were appended.
C17_Witness ==
    \E r, a \in Reqs :
        /\ a < r /\ Answered(r) /\ historyId >= 1
        /\ Len(conversationHistory) = 4
        /\ TurnsBy(conversationHistory, a) = {1, 2}
        /\ TurnsBy(conversationHistory, r) = {3, 4}

\* ---------------------------------------------------------------- C18
\* A provider call is in flight exactly while the handler is at "provider".
Calling(r) == req[r].pc = "provider"
Rejections == {FailMessage("No question provided."),
               FailMessage("Please upload at least one PDF first."),
               FailMessage("Please upload a PDF first.")}

DocumentsAndPrompt == <<pdfContexts, pdfContext, systemPrompt>>

\* C19: no step of an ask, whether it is rejected, answered or failed, changes
\* the document store or the prompt; every step that changes one of them is a
\* step of an upload.
C19_AskFrame ==
    [][/\ \A r \in Reqs : (StepOf(r) /\ req'[r].kind = "ask") =>
                DocumentsAndPrompt' = DocumentsAndPrompt
       /\ DocumentsAndPrompt' # DocumentsAndPrompt =>
                \E u \in Reqs : StepOf(u) /\ req[u].kind = "upload"]_vars

\* An ask has been answered while the store holds a.pdf and the prompt is the
\* one the upload derived from it.
C19_Witness ==
    \E r \in Reqs :
        /\ Answered(r) /\ variant = "multi"
        /\ pdfContexts = <<[name |-> "a.pdf", text |-> "T1"]>>
        /\ systemPrompt = PreambleMulti \o "T1"
        /\ req[r].kind = "ask"

\* ---------------------------------------------------------------- C20
\* a step of the single-document upload r; in the last one the extractor settles
SingleUploadStep(r) == variant = "single" /\ StepOf(r) /\ req'[r].kind = "upload"
SingleExtractStep(r) == SingleUploadStep(r) /\ req[r].pc = "parse" /\ input'.kind = "text"

\* C20: in the single-document variant an upload whose extraction fails
\* changes nothing of the session state in any of its steps and answers with
\* a failure that carries the extraction error; the text, the prompt and the
\* transcript change in one step, the one in which the extraction succeeds.
C20_SingleFailureFrame ==
    [][\A r \in Reqs :
        /\ (SingleExtractStep(r) /\ ~input'.ok) =>
              /\ SessionState' = SessionState
              /\ reply' = Reply(r, [success |-> FALSE, field |-> "message",
                                    text |-> "Error processing PDF: " \o input'.value])
        /\ (SingleExtractStep(r) /\ input'.ok) =>
              /\ pdfContext' = input'.value
              /\ systemPrompt' = PreambleSingle \o input'.value
              /\ conversationHistory' = <<>> /\ historyId' = historyId + 1
              /\ reply'.to = r /\ reply'.body.success
        /\ (SingleUploadStep(r) /\ ~SingleExtractStep(r)) => SessionState' = SessionState]_vars

\* The extraction of an upload has failed after an earlier upload stored "T1"
\* and an ask was answered: text, prompt and the two turns are still there.
C20_Witness ==
    /\ variant = "single"
    /\ input.kind = "text" /\ ~input.ok
    /\ reply = Reply(input.on, FailMessage(UploadErrPrefix \o "e1"))
    /\ pdfContext = "T1" /\ systemPrompt = PreambleSingle \o "T1"
    /\ Len(conversationHistory) = 2 /\ Alternates(conversationHistory)
====
